---------------------------- MODULE Spec2Model ----------------------------
(***************************************************************************)
(* Air Defense Simulator (src/main.py): the session state of               *)
(* AirDefenseGame and its operations reset, select_target, command_car     *)
(* and update, with the entity rules of Target, Missile and SupportCar.    *)
(*                                                                         *)
(* Units.  Time is counted in ticks of 1/60 s (FPS = 60), so 1.8 s is 108  *)
(* ticks.  Lengths are counted in twentieths of a pixel (SUB = 20), which  *)
(* makes the per-level speed factor 1 + 0.05 * (level - 1) an integer      *)
(* number of twentieths.  Velocities are in twentieths of a pixel per      *)
(* second, so a displacement is velocity * dt / 60.  Distances are         *)
(* compared through their squares.  Unit vectors carry three decimals      *)
(* (UNIT = 1000).                                                          *)
(*                                                                         *)
(* The actions are calls of the session's methods, in any order and in     *)
(* every state, as the operations of the session are described; the        *)
(* keyboard and mouse dispatch of handle_input issues a subset of them.    *)
(*                                                                         *)
(* Rendering, sound synthesis, the intro screen, explosions, the radar     *)
(* damage flash and the write-only field elapsed carry no game logic and   *)
(* are left out.                                                           *)
(***************************************************************************)
EXTENDS Integers, Sequences, FiniteSets, TLC

VARIABLES
    targets,                 \* self.targets: list of Target
    missiles,                \* self.missiles: list of Missile
    cars,                    \* self.cars: list of SupportCar
    spawn_timer,             \* self.spawn_timer (ticks)
    selected_target,         \* self.selected_target: reference to a Target
    score,                   \* self.score
    lives,                   \* self.lives
    game_over,               \* self.game_over
    level,                   \* self.level
    targets_destroyed,       \* self.targets_destroyed
    enemy_speed_multiplier,  \* self.enemy_speed_multiplier (twentieths)
    score_multiplier,        \* self.score_multiplier
    level_complete,          \* self.level_complete
    level_transition_timer,  \* self.level_transition_timer (ticks)
    lock_timer,              \* self.lock_timer (ticks)
    clock,                   \* ticks advanced since the initial state
    since,                   \* per launcher: ticks advanced since its last launch
    op                       \* the operation executed last and the cues it raised

game == <<targets, missiles, cars, spawn_timer, selected_target, score, lives,
          game_over, level, targets_destroyed, enemy_speed_multiplier,
          score_multiplier, level_complete, level_transition_timer, lock_timer>>

vars == <<targets, missiles, cars, spawn_timer, selected_target, score, lives,
          game_over, level, targets_destroyed, enemy_speed_multiplier,
          score_multiplier, level_complete, level_transition_timer, lock_timer,
          clock, since, op>>

---------------------------------------------------------------------------
(* Configuration constants of src/main.py, in the units above.             *)

FPS == 60
SUB == 20
UNIT == 1000

BASE_POSITION == <<720 * SUB, 540 * SUB>>
BASE_RADIUS == 60 * SUB
RADAR_RADIUS == 390 * SUB
SPAWN_DISTANCE == RADAR_RADIUS + 135 * SUB
ESCAPE_DISTANCE == RADAR_RADIUS + 210 * SUB
HIT_RADIUS == 18 * SUB
SELECT_RADIUS == 20 * SUB

CAR_OFFSETS == << <<-330 * SUB, 240 * SUB>>, <<0, -390 * SUB>>, <<330 * SUB, 240 * SUB>> >>

TARGET_SPAWN_INTERVAL == 132
MAX_TARGETS == 8
MISSILE_SPEED == 308 * SUB
MISSILE_LOCK_STRENGTH == 12
CAR_COOL_DOWN == 108
LEVEL_TARGET_COUNT == 20
LEVEL_COMPLETE_PAUSE == 180
START_LIVES == 5

TARGET_TYPES == [Drone   |-> [speed |-> <<70, 120>>, score |-> 75],
                 Missile |-> [speed |-> <<120, 180>>, score |-> 140]]

\* An Optional[Target] that is None.
None == 0
\* A reference to a Target that is not alive and no longer in self.targets.
Dead == -1

---------------------------------------------------------------------------
(* Vector arithmetic (pygame.Vector2).                                     *)

VAdd(a, b) == <<a[1] + b[1], a[2] + b[2]>>
VSub(a, b) == <<a[1] - b[1], a[2] - b[2]>>
VScale(a, k) == <<a[1] * k, a[2] * k>>
LengthSquared(a) == a[1] * a[1] + a[2] * a[2]
DistanceSquared(a, b) == LengthSquared(VSub(a, b))

\* a / b rounded to the nearest integer, b > 0.
RDiv(a, b) == IF a >= 0 THEN (2 * a + b) \div (2 * b)
                        ELSE -((2 * (-a) + b) \div (2 * b))
VDiv(a, k) == <<RDiv(a[1], k), RDiv(a[2], k)>>

RECURSIVE SqrtIter(_, _, _)
SqrtIter(n, lo, hi) ==
    IF lo >= hi THEN lo
    ELSE LET mid == (lo + hi + 1) \div 2
         IN IF mid * mid <= n THEN SqrtIter(n, mid, hi) ELSE SqrtIter(n, lo, mid - 1)

\* floor of the square root of n, 0 <= n < 2^31.
ISqrt(n) == SqrtIter(n, 0, 46340)

Abs(x) == IF x < 0 THEN -x ELSE x

\* A vector of the direction of a whose square of length fits the word.
RECURSIVE Shrunk(_)
Shrunk(a) == IF Abs(a[1]) > 30000 \/ Abs(a[2]) > 30000
             THEN Shrunk(VDiv(a, 2)) ELSE a

\* Vector2.normalize(), scaled to length len; a is not the zero vector.
Scaled(b, len, l) == <<RDiv(b[1] * len, l), RDiv(b[2] * len, l)>>
Unit(b, len) == Scaled(b, len, ISqrt(LengthSquared(b)))
Normalize(a, len) == Unit(Shrunk(a), len)

\* a.distance_to(b) < r and a.distance_to(b) > r
Within(a, b, r) ==
    /\ Abs(a[1] - b[1]) < r
    /\ Abs(a[2] - b[2]) < r
    /\ DistanceSquared(a, b) < r * r
Beyond(a, b, r) ==
    \/ Abs(a[1] - b[1]) > r
    \/ Abs(a[2] - b[2]) > r
    \/ DistanceSquared(a, b) > r * r

\* position + velocity * dt
Moved(position, velocity, dt) == VAdd(position, VDiv(VScale(velocity, dt), FPS))

---------------------------------------------------------------------------
(* Entities.  A Target and a Missile are objects: id stands for the        *)
(* object's identity, so that selected_target and Missile.target can refer *)
(* to a Target.                                                            *)

Target(id, position, velocity, target_type) ==
    [id |-> id, position |-> position, velocity |-> velocity,
     target_type |-> target_type, alive |-> TRUE]

Missile(id, position, velocity, source_index, target) ==
    [id |-> id, position |-> position, velocity |-> velocity,
     source_index |-> source_index, target |-> target, active |-> TRUE]

SupportCar(position, index) ==
    [position |-> position, index |-> index, cool_down |-> 0]

\* The ids of the objects of a list, and the first id no object of it has.
Ids(list) == {list[i].id : i \in DOMAIN list}
FreshId(list) == CHOOSE n \in 1..(Len(list) + 1) :
                     /\ n \notin Ids(list)
                     /\ \A k \in 1..(n - 1) : k \in Ids(list)

\* ref.alive, for a reference ref that is not None.
Alive(list, ref) == \E i \in DOMAIN list : list[i].id = ref /\ list[i].alive

\* The Target a reference refers to; the reference is alive.
Deref(list, ref) == list[CHOOSE i \in DOMAIN list : list[i].id = ref]

\* What a reference is once the dead Targets have left self.targets.
Retained(list, ref) == IF ref = None THEN None
                       ELSE IF Alive(list, ref) THEN ref ELSE Dead

\* An event raised by an operation: a sound cue, or a spawner decision.
Event(cue, what) == [cue |-> cue, what |-> what]
Op(name, arg, events) == [name |-> name, arg |-> arg, events |-> events]

---------------------------------------------------------------------------
(* apply_level_parameters                                                  *)

EnemySpeedMultiplier(lv) == SUB + (lv - 1)
\* Variant: the multiplier grows with the level instead of doubling.
ScoreMultiplierLinear(lv) == lv
ScoreMultiplier(lv) == 2 ^ (lv - 1)

ApplyLevelParameters(s) ==
    [s EXCEPT !.enemy_speed_multiplier = EnemySpeedMultiplier(s.level),
              !.score_multiplier = ScoreMultiplier(s.level)]

(* reset: the session after reset(), as a record of the game variables.    *)
NewCars == [i \in 1..Len(CAR_OFFSETS) |->
               SupportCar(VAdd(BASE_POSITION, CAR_OFFSETS[i]), i)]

ResetSession ==
    ApplyLevelParameters(
        [targets |-> <<>>, missiles |-> <<>>, cars |-> NewCars,
         spawn_timer |-> TARGET_SPAWN_INTERVAL, selected_target |-> None,
         score |-> 0, lives |-> START_LIVES, game_over |-> FALSE, level |-> 1,
         targets_destroyed |-> 0,
         enemy_speed_multiplier |-> SUB, score_multiplier |-> 1,
         level_complete |-> FALSE, level_transition_timer |-> 0,
         lock_timer |-> 0])

\* The game variables take the values of the record s in the next state.
Becomes(s) ==
    /\ targets' = s.targets
    /\ missiles' = s.missiles
    /\ cars' = s.cars
    /\ spawn_timer' = s.spawn_timer
    /\ selected_target' = s.selected_target
    /\ score' = s.score
    /\ lives' = s.lives
    /\ game_over' = s.game_over
    /\ level' = s.level
    /\ targets_destroyed' = s.targets_destroyed
    /\ enemy_speed_multiplier' = s.enemy_speed_multiplier
    /\ score_multiplier' = s.score_multiplier
    /\ level_complete' = s.level_complete
    /\ level_transition_timer' = s.level_transition_timer
    /\ lock_timer' = s.lock_timer

\* The game variables of the current state, as a record.
Session ==
    [targets |-> targets, missiles |-> missiles, cars |-> cars,
     spawn_timer |-> spawn_timer, selected_target |-> selected_target,
     score |-> score, lives |-> lives, game_over |-> game_over, level |-> level,
     targets_destroyed |-> targets_destroyed,
     enemy_speed_multiplier |-> enemy_speed_multiplier,
     score_multiplier |-> score_multiplier,
     level_complete |-> level_complete,
     level_transition_timer |-> level_transition_timer,
     lock_timer |-> lock_timer]

NeverLaunched == [i \in 1..Len(CAR_OFFSETS) |-> CAR_COOL_DOWN]

\* Variant: reset keeps the launchers of the session it ends.
ResetKeepingCars ==
    /\ Becomes([ResetSession EXCEPT !.cars = cars])
    /\ since' = NeverLaunched
    /\ op' = Op("reset", 0, <<>>)
    /\ UNCHANGED clock

Reset ==
    /\ Becomes(ResetSession)
    /\ since' = NeverLaunched
    /\ op' = Op("reset", 0, <<>>)
    /\ UNCHANGED clock

---------------------------------------------------------------------------
(* select_target(mouse_pos): the nearest live Target within 20 pixels.     *)

\* Variant: of two Targets at the same distance the later one is taken.
RECURSIVE ClosestFromLast(_, _, _, _, _)
ClosestFromLast(list, mouse_vec, i, closest_target, closest_sq) ==
    IF i > Len(list) THEN closest_target
    ELSE LET target == list[i]
             sq == DistanceSquared(mouse_vec, target.position)
         IN IF target.alive /\ sq < SELECT_RADIUS * SELECT_RADIUS /\ sq <= closest_sq
            THEN ClosestFromLast(list, mouse_vec, i + 1, target.id, sq)
            ELSE ClosestFromLast(list, mouse_vec, i + 1, closest_target, closest_sq)

RECURSIVE ClosestFrom(_, _, _, _, _)
ClosestFrom(list, mouse_vec, i, closest_target, closest_sq) ==
    IF i > Len(list) THEN closest_target
    ELSE LET target == list[i]
             sq == DistanceSquared(mouse_vec, target.position)
         IN IF target.alive /\ sq < SELECT_RADIUS * SELECT_RADIUS /\ sq < closest_sq
            THEN ClosestFrom(list, mouse_vec, i + 1, target.id, sq)
            ELSE ClosestFrom(list, mouse_vec, i + 1, closest_target, closest_sq)

\* closest_distance starts at 9999 pixels, which no distance below 20
\* pixels reaches: its square is held at the largest square of the word.
ClosestTarget(list, mouse_vec) ==
    ClosestFrom(list, mouse_vec, 1, None, 46340 * 46340)

SelectTarget(s, mouse_pos) ==
    LET closest_target == ClosestTarget(s.targets, VScale(mouse_pos, SUB))
    IN IF closest_target # None
       THEN [s EXCEPT !.selected_target = closest_target, !.lock_timer = 0]
       ELSE s

Select(mouse_pos) ==
    /\ Becomes(SelectTarget(Session, mouse_pos))
    /\ op' = Op("select", mouse_pos, <<>>)
    /\ UNCHANGED <<clock, since>>

---------------------------------------------------------------------------
(* command_car(car_index): launch a Missile at the selected Target.        *)

\* Variant: the launcher's cool-down is not looked at.
CanLaunchCooling(s, car_index) ==
    /\ ~s.level_complete
    /\ s.selected_target # None
    /\ Alive(s.targets, s.selected_target)
    /\ car_index >= 1
    /\ car_index <= Len(s.cars)

CanLaunch(s, car_index) ==
    /\ ~s.level_complete
    /\ s.selected_target # None
    /\ Alive(s.targets, s.selected_target)
    /\ car_index >= 1
    /\ car_index <= Len(s.cars)
    /\ ~(s.cars[car_index].cool_down > 0)

LaunchVelocity(car, target) ==
    LET direction == VSub(target.position, car.position)
    IN IF LengthSquared(direction) = 0
       THEN VDiv(VScale(<<UNIT, 0>>, MISSILE_SPEED), UNIT)
       ELSE VDiv(VScale(Normalize(direction, UNIT), MISSILE_SPEED), UNIT)

\* Variant: the launcher starts to cool down before the target is checked.
CommandCarEager(s, car_index) ==
    IF s.level_complete \/ car_index < 1 \/ car_index > Len(s.cars)
       \/ s.cars[car_index].cool_down > 0
    THEN s
    ELSE LET car == s.cars[car_index]
             cooling == [s EXCEPT !.cars[car_index].cool_down = CAR_COOL_DOWN]
         IN IF s.selected_target = None \/ ~Alive(s.targets, s.selected_target)
            THEN cooling
            ELSE LET target == Deref(s.targets, s.selected_target)
                     missile == Missile(FreshId(s.missiles), car.position,
                                        LaunchVelocity(car, target), car_index,
                                        target.id)
                 IN [cooling EXCEPT !.missiles = Append(s.missiles, missile)]

CommandCar(s, car_index) ==
    IF ~CanLaunch(s, car_index) THEN s
    ELSE LET car == s.cars[car_index]
             target == Deref(s.targets, s.selected_target)
             missile == Missile(FreshId(s.missiles), car.position,
                                LaunchVelocity(car, target), car_index, target.id)
         IN [s EXCEPT !.missiles = Append(s.missiles, missile),
                      !.cars[car_index].cool_down = CAR_COOL_DOWN]

Fire(car_index) ==
    /\ Becomes(CommandCar(Session, car_index))
    /\ since' = IF CanLaunch(Session, car_index)
                THEN [since EXCEPT ![car_index] = 0] ELSE since
    /\ op' = Op("fire", car_index,
                IF CanLaunch(Session, car_index)
                THEN <<Event("shot", car_index)>> ELSE <<>>)
    /\ UNCHANGED clock

---------------------------------------------------------------------------
(* spawn_target.  The random draws of one call are a SpawnChoice: the type,*)
(* the base speed in pixels per second (0.8 times a uniform draw), a spawn *)
(* position as an offset from the base in pixels (at the spawn distance)   *)
(* and the direction of flight, a unit vector along an axis.               *)

SpawnChoice(target_type, base_speed, offset, direction) ==
    [target_type |-> target_type, base_speed |-> base_speed,
     offset |-> offset, direction |-> direction]

ValidSpawn(c) ==
    /\ c.target_type \in DOMAIN TARGET_TYPES
    /\ 10 * c.base_speed >= 8 * TARGET_TYPES[c.target_type].speed[1]
    /\ 10 * c.base_speed <= 8 * TARGET_TYPES[c.target_type].speed[2]
    /\ LengthSquared(VScale(c.offset, SUB)) = SPAWN_DISTANCE * SPAWN_DISTANCE
    /\ LengthSquared(c.direction) = 1

\* Variant: the number of Targets in flight is not looked at.
SpawnTargetUncapped(s, c) ==
    LET speed == c.base_speed * s.enemy_speed_multiplier
        spawn_pos == VAdd(BASE_POSITION, VScale(c.offset, SUB))
        velocity == VScale(c.direction, speed)
    IN [s EXCEPT !.targets =
           Append(s.targets,
                  Target(FreshId(s.targets), spawn_pos, velocity, c.target_type))]

SpawnTarget(s, c) ==
    IF Len(s.targets) >= MAX_TARGETS THEN s
    ELSE LET speed == c.base_speed * s.enemy_speed_multiplier
             spawn_pos == VAdd(BASE_POSITION, VScale(c.offset, SUB))
             velocity == VScale(c.direction, speed)
         IN [s EXCEPT !.targets =
                Append(s.targets,
                       Target(FreshId(s.targets), spawn_pos, velocity, c.target_type))]

---------------------------------------------------------------------------
(* Target.update and Missile.update                                        *)

TargetUpdate(target, dt) ==
    IF ~target.alive THEN target
    ELSE [target EXCEPT !.position = Moved(target.position, target.velocity, dt)]

\* current_direction.lerp(desired_direction, MISSILE_LOCK_STRENGTH)
Lerp(a, b) == VAdd(a, VDiv(VScale(VSub(b, a), MISSILE_LOCK_STRENGTH), 100))

Guided(missile, target) ==
    LET to_target == VSub(target.position, missile.position)
    IN IF to_target # <<0, 0>>
       THEN LET desired_direction == Normalize(to_target, UNIT)
                current_direction ==
                    IF LengthSquared(missile.velocity) > 0
                    THEN Normalize(missile.velocity, UNIT)
                    ELSE desired_direction
                lerped == Lerp(current_direction, desired_direction)
                new_direction ==
                    IF LengthSquared(lerped) > 0 THEN Normalize(lerped, UNIT)
                    ELSE lerped
            IN VDiv(VScale(new_direction, MISSILE_SPEED), UNIT)
       ELSE missile.velocity

MissileUpdate(missile, list, dt) ==
    IF ~missile.active THEN missile
    ELSE IF missile.target = None \/ ~Alive(list, missile.target)
    THEN [missile EXCEPT !.position = Moved(missile.position, missile.velocity, dt),
                         !.active = FALSE]
    ELSE LET velocity == Guided(missile, Deref(list, missile.target))
         IN [missile EXCEPT !.velocity = velocity,
                            !.position = Moved(missile.position, velocity, dt)]

---------------------------------------------------------------------------
(* start_level_complete and advance_level                                  *)

\* Variant: the Targets in flight are left alive when the level completes.
StartLevelCompleteSparing(s) ==
    [s EXCEPT !.level_complete = TRUE,
              !.level_transition_timer = LEVEL_COMPLETE_PAUSE,
              !.selected_target = None,
              !.lock_timer = 0,
              !.missiles = [i \in DOMAIN s.missiles |->
                               [s.missiles[i] EXCEPT !.active = FALSE]]]

StartLevelComplete(s) ==
    [s EXCEPT !.level_complete = TRUE,
              !.level_transition_timer = LEVEL_COMPLETE_PAUSE,
              !.selected_target = None,
              !.lock_timer = 0,
              !.targets = [i \in DOMAIN s.targets |->
                              [s.targets[i] EXCEPT !.alive = FALSE]],
              !.missiles = [i \in DOMAIN s.missiles |->
                               [s.missiles[i] EXCEPT !.active = FALSE]]]

\* Variant: the next level starts with the score at 0.
AdvanceLevelScoreless(s) ==
    LET t == ApplyLevelParameters(
                 [s EXCEPT !.level = s.level + 1,
                           !.level_complete = FALSE,
                           !.level_transition_timer = 0,
                           !.targets_destroyed = 0,
                           !.score = 0])
    IN [t EXCEPT !.spawn_timer = TARGET_SPAWN_INTERVAL,
                 !.targets = <<>>,
                 !.missiles = <<>>,
                 !.selected_target = None,
                 !.lock_timer = 0]

\* Variant: the next level keeps the multipliers of the level before.
AdvanceLevelStale(s) ==
    [s EXCEPT !.level = s.level + 1,
              !.level_complete = FALSE,
              !.level_transition_timer = 0,
              !.targets_destroyed = 0,
              !.spawn_timer = TARGET_SPAWN_INTERVAL,
              !.targets = <<>>,
              !.missiles = <<>>,
              !.selected_target = None,
              !.lock_timer = 0]

AdvanceLevel(s) ==
    LET t == ApplyLevelParameters(
                 [s EXCEPT !.level = s.level + 1,
                           !.level_complete = FALSE,
                           !.level_transition_timer = 0,
                           !.targets_destroyed = 0])
    IN [t EXCEPT !.spawn_timer = TARGET_SPAWN_INTERVAL,
                 !.targets = <<>>,
                 !.missiles = <<>>,
                 !.selected_target = None,
                 !.lock_timer = 0]

---------------------------------------------------------------------------
(* update_entities.  A pass over a list is a recursion on the index; w is  *)
(* the session under update together with the events raised so far.        *)

Work(s, events) == [session |-> s, events |-> events]

CoolDown(car, dt) ==
    [car EXCEPT !.cool_down = IF car.cool_down - dt > 0 THEN car.cool_down - dt ELSE 0]

MoveEntities(s, dt) ==
    LET moved == [i \in DOMAIN s.targets |-> TargetUpdate(s.targets[i], dt)]
    IN [s EXCEPT !.targets = moved,
                 !.missiles = [i \in DOMAIN s.missiles |->
                                  MissileUpdate(s.missiles[i], moved, dt)],
                 !.cars = [i \in DOMAIN s.cars |-> CoolDown(s.cars[i], dt)]]

\* Variant: a Target that a Missile has destroyed can be hit again.
HitsAgain(s, missile) ==
    /\ missile.active
    /\ missile.target # None
    /\ missile.target \in Ids(s.targets)
    /\ Within(missile.position, Deref(s.targets, missile.target).position, HIT_RADIUS)

\* The missile hits the Target it is assigned to.
Hits(s, missile) ==
    /\ missile.active
    /\ missile.target # None
    /\ Alive(s.targets, missile.target)
    /\ Within(missile.position, Deref(s.targets, missile.target).position, HIT_RADIUS)

\* Variant: the level completes only past LEVEL_TARGET_COUNT.
KillLate(s, i) ==
    LET missile == s.missiles[i]
        k == CHOOSE j \in DOMAIN s.targets : s.targets[j].id = missile.target
        hit == [s EXCEPT !.missiles[i].active = FALSE,
                         !.targets[k].alive = FALSE,
                         !.score = s.score + TARGET_TYPES[s.targets[k].target_type].score
                                             * s.score_multiplier]
    IN IF hit.level_complete THEN hit
       ELSE LET counted == [hit EXCEPT !.targets_destroyed = hit.targets_destroyed + 1]
            IN IF counted.targets_destroyed > LEVEL_TARGET_COUNT
               THEN StartLevelComplete(counted)
               ELSE counted

Kill(s, i) ==
    LET missile == s.missiles[i]
        k == CHOOSE j \in DOMAIN s.targets : s.targets[j].id = missile.target
        hit == [s EXCEPT !.missiles[i].active = FALSE,
                         !.targets[k].alive = FALSE,
                         !.score = s.score + TARGET_TYPES[s.targets[k].target_type].score
                                             * s.score_multiplier]
    IN IF hit.level_complete THEN hit
       ELSE LET counted == [hit EXCEPT !.targets_destroyed = hit.targets_destroyed + 1]
            IN IF counted.targets_destroyed >= LEVEL_TARGET_COUNT
               THEN StartLevelComplete(counted)
               ELSE counted

RECURSIVE CollisionDetection(_, _)
CollisionDetection(w, i) ==
    IF i > Len(w.session.missiles) THEN w
    ELSE LET s == w.session
             missile == s.missiles[i]
         IN IF Hits(s, missile)
            THEN CollisionDetection(
                     Work(Kill(s, i),
                          Append(w.events,
                                 Event("explosion",
                                       Deref(s.targets, missile.target).target_type))),
                     i + 1)
            ELSE CollisionDetection(w, i + 1)

\* Variant: the Target that reaches the base stays alive.
BaseHitSurvived(s, i) ==
    LET hit == [s EXCEPT !.lives = s.lives - 1]
    IN IF hit.lives <= 0 /\ ~hit.game_over
       THEN [hit EXCEPT !.game_over = TRUE]
       ELSE hit

\* Variant: the game is over only once lives is below 0.
BaseHitLate(s, i) ==
    LET hit == [s EXCEPT !.targets[i].alive = FALSE, !.lives = s.lives - 1]
    IN IF hit.lives < 0 /\ ~hit.game_over
       THEN [hit EXCEPT !.game_over = TRUE]
       ELSE hit

BaseHit(s, i) ==
    LET hit == [s EXCEPT !.targets[i].alive = FALSE, !.lives = s.lives - 1]
    IN IF hit.lives <= 0 /\ ~hit.game_over
       THEN [hit EXCEPT !.game_over = TRUE]
       ELSE hit

RECURSIVE BaseCollision(_, _)
BaseCollision(w, i) ==
    IF i > Len(w.session.targets) THEN w
    ELSE LET s == w.session
             target == s.targets[i]
         IN IF Within(target.position, BASE_POSITION, BASE_RADIUS)
            THEN LET hit == BaseHit(s, i)
                     damage == Append(w.events, Event("damage", target.target_type))
                 IN BaseCollision(
                        Work(hit,
                             IF hit.game_over /\ ~s.game_over
                             THEN Append(damage, Event("game_over", ""))
                             ELSE damage),
                        i + 1)
            ELSE BaseCollision(w, i + 1)

\* Variant: a Target that leaves the radar costs a life.
EscapesPenalised(s) ==
    LET gone == {i \in DOMAIN s.targets :
                    Beyond(s.targets[i].position, BASE_POSITION, ESCAPE_DISTANCE)}
    IN [s EXCEPT !.targets = [i \in DOMAIN s.targets |->
                                 IF i \in gone
                                 THEN [s.targets[i] EXCEPT !.alive = FALSE]
                                 ELSE s.targets[i]],
                 !.lives = s.lives - Cardinality(gone)]

Escapes(s) ==
    [s EXCEPT !.targets =
        [i \in DOMAIN s.targets |->
            IF Beyond(s.targets[i].position, BASE_POSITION, ESCAPE_DISTANCE)
            THEN [s.targets[i] EXCEPT !.alive = FALSE]
            ELSE s.targets[i]]]

\* Variant: the selection is kept whatever became of the Target.
ClearSelectionNever(s) == s

ClearSelection(s) ==
    IF s.selected_target # None /\ ~Alive(s.targets, s.selected_target)
    THEN [s EXCEPT !.selected_target = None]
    ELSE s

IsAlive(target) == target.alive
IsActive(missile) == missile.active

\* Variant: only the Target list is filtered.
PurgeTargets(s) ==
    [s EXCEPT !.targets = SelectSeq(s.targets, IsAlive),
              !.missiles = [i \in DOMAIN s.missiles |->
                               [s.missiles[i] EXCEPT
                                   !.target = Retained(s.targets, @)]],
              !.selected_target = Retained(s.targets, s.selected_target)]

\* The two filters that end update_entities.  A reference that is kept to
\* a Target the filter drops refers to a dead Target from then on.
Purge(s) ==
    [s EXCEPT !.targets = SelectSeq(s.targets, IsAlive),
              !.missiles =
                  [i \in DOMAIN SelectSeq(s.missiles, IsActive) |->
                      [SelectSeq(s.missiles, IsActive)[i] EXCEPT
                          !.target = Retained(s.targets, @)]],
              !.selected_target = Retained(s.targets, s.selected_target)]

UpdateEntities(s, dt) ==
    LET moved == MoveEntities(s, dt)
        collided == CollisionDetection(Work(moved, <<>>), 1)
        based == BaseCollision(collided, 1)
    IN Work(Purge(ClearSelection(Escapes(based.session))), based.events)

---------------------------------------------------------------------------
(* update(dt).  interval is the draw of random.uniform for the spawn timer *)
(* and c the draws of spawn_target.                                        *)

LockTimer(s, dt) ==
    IF s.selected_target # None /\ Alive(s.targets, s.selected_target)
    THEN [s EXCEPT !.lock_timer = s.lock_timer + dt]
    ELSE [s EXCEPT !.lock_timer = 0]

Spawner(s, dt, c, interval) ==
    LET counted == [s EXCEPT !.spawn_timer = s.spawn_timer - dt]
    IN IF counted.spawn_timer <= 0
       THEN Work([SpawnTarget(counted, c) EXCEPT !.spawn_timer = interval],
                 <<Event(IF Len(counted.targets) >= MAX_TARGETS
                         THEN "spawn_refused" ELSE "spawn", c.target_type)>>)
       ELSE Work(counted, <<>>)

\* Variant: the launchers go on cooling down during level complete.
UpdateCooling(s, dt, c, interval) ==
    IF s.game_over THEN Work([s EXCEPT !.lock_timer = 0], <<>>)
    ELSE LET locked == LockTimer(s, dt)
         IN IF locked.level_complete
            THEN LET counted ==
                         [locked EXCEPT
                             !.level_transition_timer =
                                 locked.level_transition_timer - dt,
                             !.cars = [i \in DOMAIN locked.cars |->
                                          CoolDown(locked.cars[i], dt)]]
                 IN IF counted.level_transition_timer <= 0
                    THEN Work(AdvanceLevel(counted), <<>>)
                    ELSE Work(counted, <<>>)
            ELSE LET spawned == Spawner(locked, dt, c, interval)
                     updated == UpdateEntities(spawned.session, dt)
                 IN Work(updated.session, spawned.events \o updated.events)

\* Variant: the simulation goes on after game over.
UpdateRunning(s, dt, c, interval) ==
    LET locked == LockTimer(s, dt)
    IN IF locked.level_complete
       THEN LET counted == [locked EXCEPT !.level_transition_timer =
                                             locked.level_transition_timer - dt]
            IN IF counted.level_transition_timer <= 0
               THEN Work(AdvanceLevel(counted), <<>>)
               ELSE Work(counted, <<>>)
       ELSE LET spawned == Spawner(locked, dt, c, interval)
                updated == UpdateEntities(spawned.session, dt)
            IN Work(updated.session, spawned.events \o updated.events)

Update(s, dt, c, interval) ==
    IF s.game_over THEN Work([s EXCEPT !.lock_timer = 0], <<>>)
    ELSE LET locked == LockTimer(s, dt)
         IN IF locked.level_complete
            THEN LET counted == [locked EXCEPT !.level_transition_timer =
                                                  locked.level_transition_timer - dt]
                 IN IF counted.level_transition_timer <= 0
                    THEN Work(AdvanceLevel(counted), <<>>)
                    ELSE Work(counted, <<>>)
            ELSE LET spawned == Spawner(locked, dt, c, interval)
                     updated == UpdateEntities(spawned.session, dt)
                 IN Work(updated.session, spawned.events \o updated.events)

Min(a, b) == IF a < b THEN a ELSE b

\* The simulation runs in this call of update: neither game over nor
\* level complete.
Active == ~game_over /\ ~level_complete

Advance(dt, c, interval) ==
    LET w == Update(Session, dt, c, interval)
    IN /\ Becomes(w.session)
       /\ clock' = IF Active THEN clock + dt ELSE clock
       /\ since' = [i \in DOMAIN since |-> Min(CAR_COOL_DOWN, since[i] + dt)]
       /\ op' = Op("advance", dt, w.events)

---------------------------------------------------------------------------
(* handle_input: one event of the queue.  A key event carries the key, a  *)
(* mouse event the button and the position pygame.mouse.get_pos() gives.  *)
(* QUIT and the escape key end the program and are left out.              *)

K_0 == 48
K_1 == 49
K_2 == 50
K_3 == 51
K_r == 114

KeyEvent(key) ==
    [type |-> "KEYDOWN", key |-> key, button |-> 0, pos |-> <<0, 0>>]
MouseEvent(button, mouse_pos) ==
    [type |-> "MOUSEBUTTONDOWN", key |-> 0, button |-> button, pos |-> mouse_pos]

IsRestartKey(event) == event.type = "KEYDOWN" /\ event.key = K_r
IsFireKey(event) == event.type = "KEYDOWN" /\ event.key \in {K_1, K_2, K_3}
IsLeftClick(event) == event.type = "MOUSEBUTTONDOWN" /\ event.button = 1

\* Variant: the restart key resets the session at any time.
HandleEventRestarting(s, event) ==
    IF IsRestartKey(event) THEN ResetSession
    ELSE IF IsFireKey(event) /\ ~s.game_over /\ ~s.level_complete
    THEN CommandCar(s, event.key - K_0)
    ELSE IF IsLeftClick(event) /\ ~s.game_over /\ ~s.level_complete
    THEN SelectTarget(s, event.pos)
    ELSE s

HandleEvent(s, event) ==
    IF IsRestartKey(event) /\ s.game_over THEN ResetSession
    ELSE IF IsFireKey(event) /\ ~s.game_over /\ ~s.level_complete
    THEN CommandCar(s, event.key - K_0)
    ELSE IF IsLeftClick(event) /\ ~s.game_over /\ ~s.level_complete
    THEN SelectTarget(s, event.pos)
    ELSE s

\* The event makes a launcher launch.
Launches(s, event) ==
    /\ IsFireKey(event) /\ ~s.game_over /\ ~s.level_complete
    /\ CanLaunch(s, event.key - K_0)

HandleInput(event) ==
    /\ Becomes(HandleEvent(Session, event))
    /\ since' = IF HandleEvent(Session, event) = ResetSession /\ IsRestartKey(event)
                THEN NeverLaunched
                ELSE IF Launches(Session, event)
                THEN [since EXCEPT ![event.key - K_0] = 0] ELSE since
    /\ op' = Op("input", event,
                IF Launches(Session, event)
                THEN <<Event("shot", event.key - K_0)>> ELSE <<>>)
    /\ UNCHANGED clock

---------------------------------------------------------------------------
(* Initial states.  Besides the session that reset() constructs, a         *)
(* behaviour may start in the middle of a session: at a level, with a      *)
(* number of Targets destroyed in it and a number of lives left, between   *)
(* two waves (no Target or Missile in flight, every launcher ready) and    *)
(* with the spawn timer about to expire.  The score is the one of a        *)
(* session in which every Target destroyed so far was a Drone.             *)

RECURSIVE DroneScore(_, _)
DroneScore(lv, destroyed) ==
    IF lv = 1 THEN destroyed * TARGET_TYPES.Drone.score
    ELSE DroneScore(lv - 1, LEVEL_TARGET_COUNT)
         + destroyed * TARGET_TYPES.Drone.score * ScoreMultiplier(lv)

MidSession(lv, destroyed, left, timer) ==
    ApplyLevelParameters(
        [ResetSession EXCEPT !.level = lv,
                             !.targets_destroyed = destroyed,
                             !.lives = left,
                             !.score = DroneScore(lv, destroyed),
                             !.spawn_timer = timer])

StartsAt(s) ==
    /\ targets = s.targets
    /\ missiles = s.missiles
    /\ cars = s.cars
    /\ spawn_timer = s.spawn_timer
    /\ selected_target = s.selected_target
    /\ score = s.score
    /\ lives = s.lives
    /\ game_over = s.game_over
    /\ level = s.level
    /\ targets_destroyed = s.targets_destroyed
    /\ enemy_speed_multiplier = s.enemy_speed_multiplier
    /\ score_multiplier = s.score_multiplier
    /\ level_complete = s.level_complete
    /\ level_transition_timer = s.level_transition_timer
    /\ lock_timer = s.lock_timer
    /\ clock = 0
    /\ since = NeverLaunched
    /\ op = Op("init", 0, <<>>)

---------------------------------------------------------------------------
(* Inputs.                                                                 *)

\* Mouse positions: on a Target, 20 pixels beside a Target, and on the base.
Pixel(position) == VDiv(position, SUB)
MousePoints ==
    {VAdd(Pixel(targets[i].position), off) :
        i \in DOMAIN targets, off \in {<<0, 0>>, <<20, 0>>}}
    \cup {Pixel(BASE_POSITION)}

\* update(dt) with its draws taken from the given sets, while no more than
\* horizon ticks have been simulated.
TickIn(dts, choices, intervals, horizon) ==
    \E dt \in dts, c \in choices, interval \in intervals :
        /\ Active => clock + dt <= horizon
        /\ Advance(dt, c, interval)

\* A click on one of the mouse positions.
Click == \E mouse_pos \in MousePoints : Select(mouse_pos)

\* A launch command for one of the given launcher numbers.
LaunchIn(indices) == \E car_index \in indices : Fire(car_index)

Restart == Reset

\* Draws of random.uniform(TARGET_SPAWN_INTERVAL * 0.6, TARGET_SPAWN_INTERVAL * 1.3).
SpawnIntervals == {80, 171}

\* Draws of spawn_target.  A Target that dives on the base from above
\* passes launcher 2; a Drone on the line 147 pixels below the base flies
\* by and leaves the radar on the far side.
DivingMissile == SpawnChoice("Missile", 120, <<0, -525>>, <<0, 1>>)
DivingDrone == SpawnChoice("Drone", 60, <<0, -525>>, <<0, 1>>)
PassingDrone == SpawnChoice("Drone", 60, <<504, 147>>, <<-1, 0>>)

---------------------------------------------------------------------------
(* Spec: frames of 50 ms, from the start of a session or from the middle   *)
(* of a level.  The Targets dive on the base; the player clicks and        *)
(* commands launcher 2 or a launcher that does not exist.                  *)

MaxClock == 24

DtSet == {3}

SpawnChoices == {c \in {DivingMissile, DivingDrone} : ValidSpawn(c)}

CarIndices == {0, 2, Len(CAR_OFFSETS) + 1}

Init ==
    \E s \in {ResetSession, MidSession(1, 19, 1, 1), MidSession(3, 0, 5, 1)} :
        StartsAt(s)

Tick == TickIn(DtSet, SpawnChoices, SpawnIntervals, MaxClock)

Launch == LaunchIn(CarIndices)

Next == Tick \/ Click \/ Launch \/ Restart

Spec == Init /\ [][Next]_vars

---------------------------------------------------------------------------
(* SpecStall: stalled frames of 80 ticks, in which a Target that dives on  *)
(* the base reaches it while the player clicks and commands launcher 2.    *)

MaxStallClock == 320

StallChoices == {c \in {DivingMissile, PassingDrone} : ValidSpawn(c)}

InitStall ==
    \E s \in {MidSession(1, 0, 5, 1), MidSession(1, 0, 1, 1)} : StartsAt(s)

TickStall == TickIn({80}, StallChoices, SpawnIntervals, MaxStallClock)

LaunchStall == LaunchIn({2})

NextStall == TickStall \/ Click \/ LaunchStall \/ Restart

SpecStall == InitStall /\ [][NextStall]_vars

---------------------------------------------------------------------------
(* SpecCrowd: stalled frames of 80 ticks with an idle player, in which     *)
(* the Targets that fly by accumulate until the Target list is full.       *)

MaxCrowdClock == 800

InitCrowd == StartsAt(MidSession(1, 0, 5, 1))

TickCrowd == TickIn({80}, StallChoices, SpawnIntervals, MaxCrowdClock)

NextCrowd == TickCrowd \/ Restart

SpecCrowd == InitCrowd /\ [][NextCrowd]_vars

---------------------------------------------------------------------------
(* SpecCooldown: frames of one tick (1/60 s), with launcher 1 commanded    *)
(* before every frame.  The session starts one frame after a Target has    *)
(* begun its dive, with the player's click on it done.  Launcher 1 is far  *)
(* from the Target, which is still in flight when the launcher is ready    *)
(* again.                                                                  *)

MaxCooldownClock == 112

Locked ==
    LET spawned == Update(MidSession(1, 0, 5, 1), 1, DivingMissile, 171).session
    IN SelectTarget(spawned, Pixel(spawned.targets[1].position))

InitCooldown == StartsAt(Locked)

TickCooldown == TickIn({1}, {DivingMissile}, {171}, MaxCooldownClock)

LaunchCooldown == LaunchIn({1})

NextCooldown == TickCooldown \/ LaunchCooldown \/ Restart

SpecCooldown == InitCooldown /\ [][NextCooldown]_vars

---------------------------------------------------------------------------
(* SpecEscape: frames of one second, in which Targets that fly by on the   *)
(* line 315 pixels below the base cross the radar and leave it on the far  *)
(* side, while others dive on the base; the player clicks.                 *)

MaxEscapeClock == 480

PassingMissile == SpawnChoice("Missile", 144, <<420, 315>>, <<-1, 0>>)

EscapeChoices == {c \in {PassingMissile, DivingDrone} : ValidSpawn(c)}

InitEscape == StartsAt(MidSession(1, 0, 5, 1))

TickEscape == TickIn({60}, EscapeChoices, SpawnIntervals, MaxEscapeClock)

NextEscape == TickEscape \/ Click \/ Restart

SpecEscape == InitEscape /\ [][NextEscape]_vars

---------------------------------------------------------------------------
(* SpecImpact: frames of 1.2 s, in which a Drone dives on the base past    *)
(* launcher 2.  A Missile launched from launcher 2 when the Drone is 93    *)
(* pixels from the base catches it in the next frame, 21 pixels from the   *)
(* base.  The session starts fresh in level 1, or one Target short of      *)
(* completing it, with five lives or one.                                  *)

MaxImpactClock == 504

InitImpact ==
    \E s \in {MidSession(1, 0, 5, 1), MidSession(1, 19, 5, 1),
               MidSession(1, 19, 1, 1)} : StartsAt(s)

TickImpact == TickIn({72}, {DivingDrone}, {171}, MaxImpactClock)

LaunchImpact == LaunchIn({2})

NextImpact == TickImpact \/ Click \/ LaunchImpact \/ Restart

SpecImpact == InitImpact /\ [][NextImpact]_vars

---------------------------------------------------------------------------
(* SpecOvertake: frames of a third of a second, in which a Target of type  *)
(* Missile dives on the base behind a Drone on the same line, draws level  *)
(* with it after 160 ticks and passes it.  The player clicks on the        *)
(* Targets, between them, and 20 pixels beside them.                       *)

MaxOvertakeClock == 180

NearPoints ==
    {VAdd(Pixel(targets[i].position), off) :
        i \in DOMAIN targets,
        off \in {<<0, 0>>, <<0, 10>>, <<0, 12>>, <<0, -12>>, <<20, 0>>}}

ClickNear == \E mouse_pos \in NearPoints : Select(mouse_pos)

InitOvertake == StartsAt(MidSession(1, 0, 5, 1))

TickOvertake ==
    TickIn({20}, {DivingDrone, DivingMissile}, {80}, MaxOvertakeClock)

NextOvertake == TickOvertake \/ ClickNear \/ Restart

SpecOvertake == InitOvertake /\ [][NextOvertake]_vars

---------------------------------------------------------------------------
(* SpecPair: frames of 1.2 s, in which a Drone dives on the base and a     *)
(* Target of type Missile, spawned 216 ticks later on the same line and    *)
(* twice as fast, draws level with it 93 pixels from the base: the two     *)
(* enter the base radius in the same frame.  The session starts with five  *)
(* lives or with one.                                                      *)

MaxPairClock == 504

InitPair ==
    \E s \in {MidSession(1, 0, 5, 1), MidSession(1, 0, 1, 1)} : StartsAt(s)

TickPair == TickIn({72}, {DivingDrone, DivingMissile}, {171}, MaxPairClock)

NextPair == TickPair \/ Click \/ Restart

SpecPair == InitPair /\ [][NextPair]_vars

---------------------------------------------------------------------------
(* SpecVolley: frames of 50 ms, after two stalled frames of 3.3 s and      *)
(* 1.7 s that left a Drone 225 pixels and a Target of type Missile 321     *)
(* pixels above the base, diving on the axis between launchers 1 and 3,    *)
(* and after the player's click on the Drone.  The faster Target draws     *)
(* level with the Drone 96 ticks later.  The player commands launchers 1   *)
(* and 3: two Missiles launched between the same two frames fly mirrored   *)
(* paths and reach the Drone together.                                     *)

MaxVolleyClock == 99

Clicked(s) == SelectTarget(s, Pixel(s.targets[1].position))

FirstStall == Update(MidSession(1, 0, 5, 1), 198, DivingDrone, 80).session

SecondStall == Update(FirstStall, 102, DivingMissile, 171).session

InitVolley == StartsAt(Clicked(SecondStall))

TickVolley == TickIn({3}, {DivingMissile}, {171}, MaxVolleyClock)

LaunchVolley == LaunchIn({1, 3})

NextVolley == TickVolley \/ LaunchVolley

SpecVolley == InitVolley /\ [][NextVolley]_vars

---------------------------------------------------------------------------
(* SpecInput: the events of the queue go through handle_input.  Frames of *)
(* 1.2 s; a Drone dives on the base, which has one life left, or is the   *)
(* last Target of the level.  The player presses R, 2 or 0 and clicks     *)
(* with the left or the right button.                                     *)

MaxInputClock == 504

Keys == {K_r, K_2, K_0}

Buttons == {1, 3}

InitInput ==
    \E s \in {MidSession(1, 0, 1, 1), MidSession(1, 19, 5, 1)} : StartsAt(s)

TickInput == TickIn({72}, {DivingDrone}, {171}, MaxInputClock)

KeyDown == \E key \in Keys : HandleInput(KeyEvent(key))

MouseDown ==
    \E button \in Buttons, mouse_pos \in MousePoints :
        HandleInput(MouseEvent(button, mouse_pos))

NextInput == TickInput \/ KeyDown \/ MouseDown

SpecInput == InitInput /\ [][NextInput]_vars

---------------------------------------------------------------------------
(* Properties.                                                             *)

\* The events of a given cue that the last operation raised.
Raised(cue) == {i \in DOMAIN op.events : op.events[i].cue = cue}
RaisedNext(cue) == {i \in DOMAIN op'.events : op'.events[i].cue = cue}

RECURSIVE Sum(_, _)
Sum(f, S) == IF S = {} THEN 0
             ELSE LET x == CHOOSE y \in S : TRUE IN f[x] + Sum(f, S \ {x})

\* C1: a launcher creates a Missile only when its cooldown is 0 and at
\* least 108 ticks (1.8 s) have been advanced since its previous launch;
\* the launch sets its cooldown to 108 ticks.
Launched(car_index) ==
    /\ Len(missiles') > Len(missiles)
    /\ missiles'[Len(missiles')].source_index = car_index
C1_NoLaunchInCooldown ==
    [][\A car_index \in 1..3 :
          Launched(car_index) =>
              /\ cars[car_index].cool_down = 0
              /\ since[car_index] >= 108
              /\ cars'[car_index].cool_down = 108]_vars
\* A launcher has launched a second Missile while its first is in flight.
C1_Witness ==
    /\ op.name = "fire"
    /\ op.events # <<>>
    /\ Len(missiles) = 2
    /\ missiles[1].source_index = missiles[2].source_index
    /\ clock >= 108

\* C2: a Target that enters the base radius during a tick of the running
\* simulation costs exactly one life and is gone from the Target list
\* when the tick ends, so that it can never cost a second life: lives
\* drops by the number of Targets whose motion ends inside the base
\* radius, and no Target of the list is inside the base radius.
InsideBase(position) ==
    LengthSquared(VSub(position, <<14400, 10800>>)) < 1200 * 1200
Entering(dt) ==
    {i \in DOMAIN targets :
        InsideBase(VAdd(targets[i].position,
                        <<(targets[i].velocity[1] * dt) \div 60,
                          (targets[i].velocity[2] * dt) \div 60>>))}
C2_BaseImpactOnce ==
    [][(op'.name = "advance" /\ ~game_over /\ ~level_complete) =>
          /\ lives' = lives - Cardinality(Entering(op'.arg))
          /\ \A i \in Entering(op'.arg) : targets[i].id \notin Ids(targets')
          /\ \A j \in DOMAIN targets' : ~InsideBase(targets'[j].position)]_vars
C2_Witness ==
    /\ op.name = "advance"
    /\ Raised("damage") # {}
    /\ lives = START_LIVES - 1
    /\ targets # <<>>

\* C3: level_complete holds only with targets_destroyed at 20, the counter
\* never exceeds 20, and a counter at 20 means level complete already.
C3_LevelCompleteAtTarget ==
    /\ level_complete => targets_destroyed = 20
    /\ targets_destroyed <= 20
    /\ targets_destroyed = 20 => level_complete
C3_Witness ==
    /\ op.name = "advance"
    /\ Raised("explosion") # {}
    /\ targets_destroyed = 20
    /\ level_complete
    /\ level_transition_timer = LEVEL_COMPLETE_PAUSE

\* C4: no operation other than reset decreases score or level.
C4_ScoreLevelMonotone ==
    [][op'.name # "reset" => (score' >= score /\ level' >= level)]_vars
C4_Witness ==
    /\ op.name = "advance"
    /\ level = 2
    /\ score = 20 * 75
    /\ ~level_complete

\* C5: the Target list never holds more than MAX_TARGETS (8) Targets.
C5_TargetCap == Len(targets) <= 8
C5_Witness ==
    /\ op.name = "advance"
    /\ \E i \in DOMAIN op.events : op.events[i].cue = "spawn_refused"
    /\ Len(targets) = 8

\* C6: after every operation the selected target is absent or a live
\* Target of the Target list.
C6_SelectionAlive ==
    \/ selected_target = None
    \/ \E i \in DOMAIN targets :
          targets[i].id = selected_target /\ targets[i].alive
\* The selected Target, the only one there was, is destroyed by the
\* Missile launched at it, in a tick that does not complete the level.
C6_Witness ==
    /\ op.name = "advance"
    /\ Raised("explosion") # {}
    /\ ~level_complete
    /\ selected_target = None
    /\ targets = <<>>

\* C7: a Missile whose target is dead or absent before a tick is no longer
\* in the Missile list after the tick, game over included.
Lost(missile) ==
    \/ missile.target = None
    \/ ~\E i \in DOMAIN targets :
           targets[i].id = missile.target /\ targets[i].alive
C7_LostMissileGone ==
    [][op'.name = "advance" =>
          \A i \in DOMAIN missiles :
              Lost(missiles[i]) =>
                  \A j \in DOMAIN missiles' : missiles'[j].id # missiles[i].id]_vars

\* C8: a launch command given without a selected live target, during level
\* complete, for a launcher number outside 1..3 or for a launcher that is
\* cooling down changes nothing of the session.
Refused(car_index) ==
    \/ selected_target = None
    \/ ~\E i \in DOMAIN targets :
           targets[i].id = selected_target /\ targets[i].alive
    \/ level_complete
    \/ car_index \notin 1..3
    \/ cars[car_index].cool_down > 0
C8_RefusedLaunchNoOp ==
    [][(op'.name = "fire" /\ Refused(op'.arg)) => UNCHANGED game]_vars
\* Launcher 2 is commanded again while it cools down and its Missile is
\* on the way to the selected Target.
C8_Witness ==
    /\ op.name = "fire"
    /\ op.arg = 2
    /\ op.events = <<>>
    /\ selected_target # None
    /\ ~level_complete
    /\ cars[2].cool_down > 0
    /\ Len(missiles) = 1

\* C9: reset leaves lives 5, score 0, level 1, no Target destroyed, neither
\* game over nor level complete, no Target, no Missile, no selection and
\* every launcher ready; a reset that follows a reset changes nothing.
C9_ResetRestores ==
    [][op'.name = "reset" =>
          /\ lives' = 5 /\ score' = 0 /\ level' = 1 /\ targets_destroyed' = 0
          /\ ~game_over' /\ ~level_complete'
          /\ targets' = <<>> /\ missiles' = <<>>
          /\ selected_target' = None
          /\ Len(cars') = 3
          /\ \A i \in DOMAIN cars' : cars'[i].cool_down = 0
          /\ op.name = "reset" => UNCHANGED game]_vars
\* A reset of a session in which time has been advanced.
C9_Witness ==
    /\ op.name = "reset"
    /\ clock > 0
    /\ lives = 5 /\ score = 0 /\ level = 1
    /\ since = NeverLaunched

\* C10: an operation other than reset adds to the score, for every Target
\* a Missile destroys in it, the score of the Target's type times
\* 2^(level - 1), and nothing else: 75 for a Drone at level 1 and 560 for
\* a Missile at level 3.
Award(events, lv) ==
    Sum([i \in DOMAIN events |->
            IF events[i].cue # "explosion" THEN 0
            ELSE IF events[i].what = "Drone" THEN 75 * 2 ^ (lv - 1)
            ELSE 140 * 2 ^ (lv - 1)],
        DOMAIN events)
C10_ScoreAward ==
    [][op'.name # "reset" =>
          /\ score' = score + Award(op'.events, level)
          /\ (level = 1 /\ op'.events = <<Event("explosion", "Drone")>>)
                => score' = score + 75
          /\ (level = 3 /\ op'.events = <<Event("explosion", "Missile")>>)
                => score' = score + 560]_vars
C10_Witness ==
    /\ op.name = "advance"
    /\ op.events = <<Event("explosion", "Missile")>>
    /\ level = 3
    /\ score = 4500 + 560

\* C11: a Target that a tick of the running simulation moves further than
\* 600 pixels (radar radius 390 plus 210) from the base is gone from the
\* Target list when the tick ends, no listed Target is ever that far, and
\* a tick in which a Target leaves and none is destroyed or reaches the
\* base changes neither score nor lives nor the destroyed counter.
OutOfRange(position) ==
    LengthSquared(VSub(position, <<14400, 10800>>)) > 12000 * 12000
Leaving(dt) ==
    {i \in DOMAIN targets :
        OutOfRange(VAdd(targets[i].position,
                        <<(targets[i].velocity[1] * dt) \div 60,
                          (targets[i].velocity[2] * dt) \div 60>>))}
C11_EscapeNoPenalty ==
    [][(op'.name = "advance" /\ ~game_over /\ ~level_complete) =>
          /\ \A i \in Leaving(op'.arg) : targets[i].id \notin Ids(targets')
          /\ \A j \in DOMAIN targets' : ~OutOfRange(targets'[j].position)
          /\ (Leaving(op'.arg) # {} /\ RaisedNext("explosion") = {}
                  /\ RaisedNext("damage") = {})
                => /\ score' = score
                   /\ lives' = lives
                   /\ targets_destroyed' = targets_destroyed]_vars
\* The first Target of the session has left the radar, unharmed and
\* without reaching the base, while the two that followed it are in flight.
C11_Witness ==
    /\ op.name = "advance"
    /\ op.events = <<>>
    /\ clock >= 420
    /\ Len(targets) = 2
    /\ lives = START_LIVES
    /\ targets_destroyed = 0
    /\ \A i \in DOMAIN targets :
          targets[i].target_type = "Missile" /\ targets[i].id # 1

\* C12: when the only Target that a tick moves inside the base radius is
\* destroyed by a Missile in that tick, the score is awarded and lives is
\* not decremented.
AimedAt(i) == \A j \in DOMAIN missiles : missiles[j].target = targets[i].id
C12_KillBeatsImpact ==
    [][(/\ op'.name = "advance" /\ ~game_over /\ ~level_complete
        /\ RaisedNext("explosion") # {}
        /\ \E i \in DOMAIN targets : Entering(op'.arg) = {i} /\ AimedAt(i))
          => (score' > score /\ lives' = lives)]_vars

\* C13: level_complete and game_over never hold together, and game_over
\* is set only by a step that starts with neither.
C13_OneMode ==
    [][/\ ~(level_complete' /\ game_over')
       /\ (game_over' /\ ~game_over) => ~level_complete]_vars

\* C14: every advance made while level_complete holds counts the
\* transition timer down by dt, and the one that brings it to 0 or below
\* returns the session to the running simulation with level raised by 1,
\* the destroyed counter at 0, score_multiplier at 2^(level - 1), the spawn
\* timer at the base interval of 132 ticks and no Target or Missile; so
\* repeated advances leave level complete once 180 ticks have passed.
C14_LevelAdvance ==
    [][(op'.name = "advance" /\ level_complete) =>
          IF level_transition_timer - op'.arg <= 0
          THEN /\ ~level_complete'
               /\ level' = level + 1
               /\ targets_destroyed' = 0
               /\ score_multiplier' = 2 ^ (level' - 1)
               /\ spawn_timer' = 132
               /\ targets' = <<>> /\ missiles' = <<>>
          ELSE /\ level_complete'
               /\ level_transition_timer' = level_transition_timer - op'.arg]_vars

\* C15 as stated: an advance made during level complete or game over
\* changes none of the Target list, the Missile list, the launchers, the
\* spawn timer, score, lives, level and the destroyed counter.
C15_Frozen ==
    [][(op'.name = "advance" /\ (level_complete \/ game_over)) =>
          UNCHANGED <<targets, missiles, cars, spawn_timer, score, lives,
                      level, targets_destroyed>>]_vars
\* C15, amended: such an advance changes none of them, and during level
\* complete counts the transition timer down by dt, except the advance
\* that brings the transition timer to 0 or below: that one starts the
\* next level, and still changes none of the Target list, the Missile
\* list, the launchers, score and lives.
C15_FrozenUntilExpiry ==
    [][(op'.name = "advance" /\ (level_complete \/ game_over)) =>
          IF game_over
          THEN UNCHANGED <<targets, missiles, cars, spawn_timer, score, lives,
                           level, targets_destroyed, level_transition_timer,
                           level_complete>>
          ELSE IF level_transition_timer - op'.arg > 0
          THEN /\ UNCHANGED <<targets, missiles, cars, spawn_timer, score,
                              lives, level, targets_destroyed>>
               /\ level_transition_timer' = level_transition_timer - op'.arg
          ELSE UNCHANGED <<targets, missiles, cars, score, lives>>]_vars
\* Level complete, one frame into the pause, with launcher 2 still
\* cooling down from the launch that completed the level.
C15_Witness ==
    /\ op.name = "advance"
    /\ level_complete /\ ~game_over
    /\ level_transition_timer = LEVEL_COMPLETE_PAUSE - 72
    /\ cars[2].cool_down = 36

\* C16: once game_over holds, no operation other than reset changes
\* game_over, score, lives or level, or raises the game-over cue; the cue
\* is raised at most once by an operation, and exactly by the operation
\* that sets game_over.
C16_GameOverTerminal ==
    [][/\ (game_over /\ op'.name # "reset") =>
              /\ game_over'
              /\ score' = score /\ lives' = lives /\ level' = level
              /\ RaisedNext("game_over") = {}
       /\ Cardinality(RaisedNext("game_over")) <= 1
       /\ (RaisedNext("game_over") # {}) <=> (~game_over /\ game_over')]_vars
\* After game over the player has clicked a Target that is still on the
\* radar and launcher 2 has launched a Missile at it.
C16_Witness ==
    /\ game_over
    /\ lives = 0
    /\ op.name = "fire"
    /\ op.events # <<>>
    /\ missiles # <<>>

\* C17: whenever level_complete holds after an operation, the Target list
\* and the Missile list are empty and no Target is selected; a select or
\* fire command given during level complete changes nothing of the session.
C17_LevelCompleteEmpty ==
    [][/\ level_complete' =>
              /\ targets' = <<>>
              /\ missiles' = <<>>
              /\ selected_target' = None
       /\ (level_complete /\ op'.name \in {"select", "fire"}) =>
              UNCHANGED game]_vars
\* The level completes in a tick in which a Target was spawned, with
\* another one on its way to the base.
C17_Witness ==
    /\ op.name = "advance"
    /\ level_complete /\ ~game_over
    /\ level_transition_timer = LEVEL_COMPLETE_PAUSE
    /\ Raised("spawn") # {}
    /\ Raised("explosion") # {}
    /\ clock = 504

\* C18: select_target(point) with a live Target closer than 20 pixels to
\* the point selects the closest of them, the first of the list among
\* those equally close, and sets the lock timer to 0; with none it leaves
\* selection and lock timer as they are.  It changes nothing else.
PointDistanceSquared(point, i) ==
    LengthSquared(VSub(<<point[1] * 20, point[2] * 20>>, targets[i].position))
InReach(point) ==
    {i \in DOMAIN targets :
        targets[i].alive /\ PointDistanceSquared(point, i) < 400 * 400}
Nearest(point) ==
    CHOOSE i \in InReach(point) :
        \A j \in InReach(point) :
            \/ PointDistanceSquared(point, i) < PointDistanceSquared(point, j)
            \/ (PointDistanceSquared(point, i) = PointDistanceSquared(point, j)
                    /\ i <= j)
C18_SelectNearest ==
    [][op'.name = "select" =>
          /\ UNCHANGED <<targets, missiles, cars, spawn_timer, score, lives,
                         game_over, level, targets_destroyed,
                         enemy_speed_multiplier, score_multiplier,
                         level_complete, level_transition_timer>>
          /\ IF InReach(op'.arg) = {}
             THEN UNCHANGED <<selected_target, lock_timer>>
             ELSE /\ selected_target' = targets[Nearest(op'.arg)].id
                  /\ lock_timer' = 0]_vars
\* A click between two Targets, closer to the second of the list, has
\* selected the second.
C18_Witness ==
    /\ op.name = "select"
    /\ Cardinality(InReach(op.arg)) = 2
    /\ Len(targets) >= 2
    /\ 2 \in InReach(op.arg)
    /\ selected_target = targets[2].id
    /\ lock_timer = 0
    /\ PointDistanceSquared(op.arg, 2) < PointDistanceSquared(op.arg, 1)

\* C19: after every operation every Target of the Target list is alive
\* and every Missile of the Missile list is active.
C19_ListsPurged ==
    /\ \A i \in DOMAIN targets : targets[i].alive
    /\ \A j \in DOMAIN missiles : missiles[j].active
\* A Missile has destroyed its Target: both are gone from their lists,
\* while the Targets that followed are still in flight.
C19_Witness ==
    /\ op.name = "advance"
    /\ Raised("explosion") # {}
    /\ ~level_complete
    /\ missiles = <<>>
    /\ Len(targets) = 2
    /\ targets_destroyed = 1

\* C20: in every reachable state score_multiplier is 2^(level - 1) and
\* the enemy speed multiplier is 1 + 0.05 * (level - 1), which is
\* 20 + (level - 1) twentieths.
C20_MultipliersFromLevel ==
    /\ score_multiplier = 2 ^ (level - 1)
    /\ enemy_speed_multiplier = 20 + (level - 1)
\* The second level has just started.
C20_Witness ==
    /\ op.name = "advance"
    /\ level = 2
    /\ targets_destroyed = 0
    /\ spawn_timer = TARGET_SPAWN_INTERVAL
    /\ score_multiplier = 2
    /\ enemy_speed_multiplier = 21

\* C21: lives is within 0..5 in every reachable state.
C21_LivesInRange == lives \in 0..5

\* C22: after every operation game_over holds exactly when lives is 0 or
\* less.
C22_GameOverIffNoLives == game_over <=> (lives <= 0)
\* Two Targets have reached the base in the same tick, the first of them
\* taking the last life.
C22_Witness ==
    /\ op.name = "advance"
    /\ Cardinality(Raised("damage")) = 2
    /\ Cardinality(Raised("game_over")) = 1
    /\ game_over

\* C23: in a tick of the running simulation at most one explosion is
\* raised per Target that some Missile is assigned to, each explosion
\* adds one to the destroyed counter and the score of one Target, and a
\* Target that no Missile is assigned to stays in the list unless it
\* reaches the base, leaves the radar or the level completes.
Aimed ==
    {i \in DOMAIN targets :
        \E j \in DOMAIN missiles : missiles[j].target = targets[i].id}
C23_OneAwardPerTarget ==
    [][(op'.name = "advance" /\ ~game_over /\ ~level_complete) =>
          /\ Cardinality(RaisedNext("explosion")) <= Cardinality(Aimed)
          /\ targets_destroyed' =
                 targets_destroyed + Cardinality(RaisedNext("explosion"))
          /\ score' = score + Award(op'.events, level)
          /\ \A i \in (DOMAIN targets) \ Aimed :
                 (i \notin Entering(op'.arg) /\ i \notin Leaving(op'.arg)
                     /\ ~level_complete')
                    => targets[i].id \in Ids(targets')]_vars
\* Launchers 1 and 3 have launched between the same two frames; the Drone
\* has been destroyed once, the Missile that came second is left without
\* a target, and the Target that had drawn level with the Drone is still
\* there.
C23_Witness ==
    /\ op.name = "advance"
    /\ Cardinality(Raised("explosion")) = 1
    /\ since[1] = since[3] /\ since[1] < CAR_COOL_DOWN
    /\ targets_destroyed = 1
    /\ score = 75
    /\ Len(missiles) = 1
    /\ missiles[1].target = Dead
    /\ targets # <<>>

\* C24: handle_input gates the events.  While game_over holds, a fire key
\* or a click changes no session state and the restart key R puts the
\* session back to its initial state; while game_over does not hold, R
\* changes nothing; while level_complete holds, fire keys and clicks
\* change nothing.
C24_InputGating ==
    [][op'.name = "input" =>
          /\ (game_over /\ (IsFireKey(op'.arg) \/ IsLeftClick(op'.arg)))
                 => game' = game
          /\ (game_over /\ IsRestartKey(op'.arg))
                 => /\ ~game_over' /\ ~level_complete'
                    /\ lives' = START_LIVES /\ score' = 0 /\ level' = 1
                    /\ targets_destroyed' = 0
                    /\ targets' = <<>> /\ missiles' = <<>>
                    /\ cars' = NewCars /\ selected_target' = None
          /\ (game_over /\ ~IsRestartKey(op'.arg)) => game_over'
          /\ (~game_over /\ IsRestartKey(op'.arg)) => game' = game
          /\ (level_complete /\ (IsFireKey(op'.arg) \/ IsLeftClick(op'.arg)))
                 => game' = game]_vars
\* R has been pressed after the last life was lost: the session that
\* started with one life and no score has five lives again.
C24_Witness ==
    /\ op.name = "input"
    /\ IsRestartKey(op.arg)
    /\ clock = MaxInputClock
    /\ lives = START_LIVES
    /\ score = 0
    /\ targets = <<>>
    /\ ~game_over

=============================================================================
